---- MODULE Spec2Model ----
(***************************************************************************)
(* A model of the Zinc client library (src/golangsdk.go): the retailer     *)
(* parser, the query builders of the two product fetches, the response     *)
(* sanitizer and decoder of SendRequest, the failed-status handling of the *)
(* product fetches, SendOrder, and the two-goroutine fan-out/fan-in of     *)
(* GetProductInfo with its three buffered channels.                        *)
(*                                                                         *)
(* Go strings are TLA+ strings.  A pointer or an error is a record with a  *)
(* field that says whether it is nil.                                      *)
(***************************************************************************)
EXTENDS Integers, Sequences, FiniteSets, TLC

(***************************************************************************)
(* Bounds of the explored inputs.                                          *)
(***************************************************************************)
\* largest max_age / priority value tried (the smallest is -1)
MaxOpt == 1
\* largest Unix second tried for newer_than (the smallest is 0)
MaxUnix == 1
\* how many spurious HTTP responses the upstream appends to a body
MaxAppended == 1

(***************************************************************************)
(* Strings.                                                                *)
(***************************************************************************)
\* s[i:j] of Go, 0-based, j exclusive
Slice(s, i, j) == SubSeq(s, i + 1, j)

\* the byte at 0-based offset i
At(s, i) == SubSeq(s, i + 1, i + 1)

\* strings.Index: 0-based offset of the first occurrence of sub, -1 if none
Index(s, sub) ==
    LET hits == {i \in 0..(Len(s) - Len(sub)) : Slice(s, i, i + Len(sub)) = sub}
    IN  IF hits = {} THEN -1
        ELSE CHOOSE i \in hits : \A j \in hits : i <= j

\* strings.Contains
Contains(s, sub) == Index(s, sub) # -1

Digit(d) ==
    CASE d = 0 -> "0" [] d = 1 -> "1" [] d = 2 -> "2" [] d = 3 -> "3"
      [] d = 4 -> "4" [] d = 5 -> "5" [] d = 6 -> "6" [] d = 7 -> "7"
      [] d = 8 -> "8" [] d = 9 -> "9"

RECURSIVE NatToStr(_)
NatToStr(n) == IF n < 10 THEN Digit(n) ELSE NatToStr(n \div 10) \o Digit(n % 10)

\* strconv.Itoa and strconv.FormatInt(_, 10)
Itoa(n) == IF n < 0 THEN "-" \o NatToStr(0 - n) ELSE NatToStr(n)

(***************************************************************************)
(* Retailer                                                                *)
(***************************************************************************)
Amazon == "amazon"
AmazonUK == "amazon_uk"
AmazonCA == "amazon_ca"
AmazonMX == "amazon_mx"
Walmart == "walmart"
Aliexpress == "aliexpress"

Retailers == {Amazon, AmazonUK, AmazonCA, AmazonMX, Walmart, Aliexpress}

(***************************************************************************)
(* Errors.  type is "nil" for a nil error, "ZincError" for the typed       *)
(* error, "error" for any other error value.                               *)
(***************************************************************************)
EmptyData == [Message |-> ""]

NilErr == [type |-> "nil", ErrorMessage |-> "", Code |-> "", Data |-> EmptyData]

ZincError(msg, code, data) ==
    [type |-> "ZincError", ErrorMessage |-> msg, Code |-> code, Data |-> data]

\* an error value that is not a ZincError (fmt.Errorf, net/http, encoding/json)
PlainError(msg) ==
    [type |-> "error", ErrorMessage |-> msg, Code |-> "", Data |-> EmptyData]

\* err.Error()
Error(z) == z.ErrorMessage

SimpleError(errorStr) == ZincError(errorStr, "", EmptyData)

\* GetRetailer with the result of one case copied from the case above it
GetRetailerCopied(retailer) ==
    CASE retailer = "amazon"     -> [retailer |-> Amazon,     err |-> NilErr]
      [] retailer = "amazon_uk"  -> [retailer |-> AmazonUK,   err |-> NilErr]
      [] retailer = "amazon_ca"  -> [retailer |-> AmazonCA,   err |-> NilErr]
      [] retailer = "amazon_mx"  -> [retailer |-> AmazonCA,   err |-> NilErr]
      [] retailer = "walmart"    -> [retailer |-> Walmart,    err |-> NilErr]
      [] retailer = "aliexpress" -> [retailer |-> Aliexpress, err |-> NilErr]
      [] OTHER -> [retailer |-> Amazon, err |-> PlainError("Invalid retailer string")]

GetRetailer(retailer) ==
    CASE retailer = "amazon"     -> [retailer |-> Amazon,     err |-> NilErr]
      [] retailer = "amazon_uk"  -> [retailer |-> AmazonUK,   err |-> NilErr]
      [] retailer = "amazon_ca"  -> [retailer |-> AmazonCA,   err |-> NilErr]
      [] retailer = "amazon_mx"  -> [retailer |-> AmazonMX,   err |-> NilErr]
      [] retailer = "walmart"    -> [retailer |-> Walmart,    err |-> NilErr]
      [] retailer = "aliexpress" -> [retailer |-> Aliexpress, err |-> NilErr]
      [] OTHER -> [retailer |-> Amazon, err |-> PlainError("Invalid retailer string")]

(***************************************************************************)
(* encoding/json, as far as the response structs use it: objects and       *)
(* strings, blanks between tokens, no escapes.  Scan is the syntax check   *)
(* json.Unmarshal runs over the whole input before it decodes; it yields   *)
(* the values it met, in order, as <<path, kind, string>>, where path is   *)
(* the sequence of object keys that leads to the value.                    *)
(***************************************************************************)
ErrUnexpectedEnd == "unexpected end of JSON input"
ErrInvalidChar == "invalid character"
ErrUnmarshalType == "json: cannot unmarshal"

\* the scanner's position after the value at `path` is complete
AfterValue(path) ==
    IF path = <<>> THEN [mode |-> "end", path |-> <<>>]
    ELSE [mode |-> "comma", path |-> SubSeq(path, 1, Len(path) - 1)]

RECURSIVE Scan(_, _, _, _, _, _)
Scan(s, i, mode, path, start, ev) ==
    IF i >= Len(s)
    THEN IF mode = "end" THEN [err |-> "", ev |-> ev]
         ELSE [err |-> ErrUnexpectedEnd, ev |-> ev]
    ELSE
      LET c == At(s, i)
          bad == [err |-> ErrInvalidChar, ev |-> ev]
      IN  CASE mode \in {"string", "key"} ->
                 IF c # "\""
                 THEN Scan(s, i + 1, mode, path, start, ev)
                 ELSE IF mode = "key"
                 THEN Scan(s, i + 1, "colon", Append(path, Slice(s, start, i)), 0, ev)
                 ELSE LET nx == AfterValue(path)
                      IN  Scan(s, i + 1, nx.mode, nx.path, 0,
                               Append(ev, <<path, "string", Slice(s, start, i)>>))
            [] c = " " -> Scan(s, i + 1, mode, path, start, ev)
            [] mode = "value" ->
                 IF c = "{"
                 THEN Scan(s, i + 1, "firstkey", path, 0, Append(ev, <<path, "object", "">>))
                 ELSE IF c = "\"" THEN Scan(s, i + 1, "string", path, i + 1, ev)
                 ELSE bad
            [] mode = "firstkey" ->
                 IF c = "}"
                 THEN LET nx == AfterValue(path) IN Scan(s, i + 1, nx.mode, nx.path, 0, ev)
                 ELSE IF c = "\"" THEN Scan(s, i + 1, "key", path, i + 1, ev)
                 ELSE bad
            [] mode = "nextkey" ->
                 IF c = "\"" THEN Scan(s, i + 1, "key", path, i + 1, ev) ELSE bad
            [] mode = "colon" ->
                 IF c = ":" THEN Scan(s, i + 1, "value", path, 0, ev) ELSE bad
            [] mode = "comma" ->
                 IF c = "," THEN Scan(s, i + 1, "nextkey", path, 0, ev)
                 ELSE IF c = "}"
                 THEN LET nx == AfterValue(path) IN Scan(s, i + 1, nx.mode, nx.path, 0, ev)
                 ELSE bad
            [] OTHER -> bad

\* the kind of the last value met at path: "object", "string" or "absent"
KindAt(ev, path) ==
    LET at == {k \in 1..Len(ev) : ev[k][1] = path}
    IN  IF at = {} THEN "absent"
        ELSE ev[CHOOSE k \in at : \A j \in at : j <= k][2]

\* the string a string field at path is set to (a field that is absent keeps "")
StringAt(ev, path) ==
    LET at == {k \in 1..Len(ev) : ev[k][1] = path /\ ev[k][2] = "string"}
    IN  IF at = {} THEN ""
        ELSE ev[CHOOSE k \in at : \A j \in at : j <= k][3]

\* some value at one of the paths has another JSON kind than the field's type
Mismatch(ev, stringPaths, objectPaths) ==
    \E k \in 1..Len(ev) :
        \/ ev[k][1] \in stringPaths /\ ev[k][2] # "string"
        \/ ev[k][1] \in objectPaths /\ ev[k][2] # "object"

\* the fields of ProductOffersResponse / ProductDetailsResponse that decide
\* the control flow, and those of ErrorDataResponse
ProductStringPaths == {<<"status">>, <<"code">>, <<"title">>, <<"data", "message">>}

\* OrderResponse has no status field: the key is skipped like any unknown key
OrderStringPaths == {<<"_type">>, <<"code">>, <<"message">>, <<"data", "message">>}

ObjectPaths == {<<>>, <<"data">>}

\* the value json.Unmarshal leaves in a response struct of the given kind
Decoded(kind, ev) ==
    LET data == IF KindAt(ev, <<"data">>) = "object"
                THEN [Message |-> StringAt(ev, <<"data", "message">>)]
                ELSE EmptyData
    IN  IF kind = "order"
        THEN [isNil |-> FALSE, Type |-> StringAt(ev, <<"_type">>),
              Code |-> StringAt(ev, <<"code">>), Data |-> data,
              ErrorMessage |-> StringAt(ev, <<"message">>)]
        ELSE [isNil |-> FALSE, Status |-> StringAt(ev, <<"status">>),
              Code |-> StringAt(ev, <<"code">>), Data |-> data,
              Title |-> StringAt(ev, <<"title">>)]

\* json.Unmarshal(body, &resp) for resp of the given kind
Unmarshal(body, kind) ==
    LET sc == Scan(body, 0, "value", <<>>, 0, <<>>)
        strs == IF kind = "order" THEN OrderStringPaths ELSE ProductStringPaths
    IN  IF sc.err # "" THEN [err |-> PlainError(sc.err), resp |-> Decoded(kind, <<>>)]
        ELSE IF Mismatch(sc.ev, strs, ObjectPaths)
        THEN [err |-> PlainError(ErrUnmarshalType), resp |-> Decoded(kind, sc.ev)]
        ELSE [err |-> NilErr, resp |-> Decoded(kind, sc.ev)]

(***************************************************************************)
(* The response sanitizer.                                                 *)
(***************************************************************************)
Marker == "HTTP/1.1 200 OK"

\* cleanRespBody cutting at the last occurrence of the marker
cleanRespBodyLast(respBody) ==
    LET hits == {i \in 0..(Len(respBody) - Len(Marker)) :
                    Slice(respBody, i, i + Len(Marker)) = Marker}
    IN  IF hits = {} THEN respBody
        ELSE Slice(respBody, 0, CHOOSE i \in hits : \A j \in hits : j <= i)

cleanRespBody(respBody) ==
    LET i == Index(respBody, Marker)
    IN  IF i = -1 THEN respBody ELSE Slice(respBody, 0, i)

(***************************************************************************)
(* The network.  net.fail names the step of SendRequest that fails         *)
(* ("none" when the exchange succeeds); net.body is the response body      *)
(* ioutil.ReadAll yields.                                                  *)
(***************************************************************************)
ErrNewRequest == "net/http: invalid request"
ErrDo == "net/http: request failed"
ErrReadAll == "unexpected EOF"

\* the value of a response struct before anything is decoded into it
ZeroResp(kind) == Decoded(kind, <<>>)

NilPtr == [isNil |-> TRUE]

SendRequest(method, requestPath, net, kind) ==
    IF net.fail = "NewRequest" THEN [err |-> PlainError(ErrNewRequest), resp |-> ZeroResp(kind)]
    ELSE IF net.fail = "Do" THEN [err |-> PlainError(ErrDo), resp |-> ZeroResp(kind)]
    ELSE IF net.fail = "ReadAll" THEN [err |-> PlainError(ErrReadAll), resp |-> ZeroResp(kind)]
    ELSE LET cleanedBody == cleanRespBody(net.body)
             u == Unmarshal(cleanedBody, kind)
         IN  IF u.err.type # "nil"
             THEN [err |-> SimpleError(Error(u.err)), resp |-> u.resp]
             ELSE [err |-> NilErr, resp |-> u.resp]

(***************************************************************************)
(* url.Values: a function from the keys that are set to their values.      *)
(***************************************************************************)
NoValues == [k \in {} |-> ""]

Set(values, key, value) ==
    [k \in DOMAIN values \cup {key} |-> IF k = key THEN value ELSE values[k]]

Unreserved ==
    {"a", "b", "c", "d", "e", "f", "g", "h", "i", "j", "k", "l", "m", "n", "o", "p",
     "q", "r", "s", "t", "u", "v", "w", "x", "y", "z", "0", "1", "2", "3", "4", "5",
     "6", "7", "8", "9", "-", "_", ".", "~"}

\* url.QueryEscape, for lower-case letters, digits, - _ . ~, the blank and & =
RECURSIVE QueryEscape(_)
QueryEscape(s) ==
    IF s = "" THEN ""
    ELSE LET c == At(s, 0)
             e == CASE c \in Unreserved -> c
                    [] c = " " -> "+"
                    [] c = "&" -> "%26"
                    [] c = "=" -> "%3D"
         IN  e \o QueryEscape(Tail(s))

\* the keys the two fetches set, in the order sort.Strings puts them
SortedKeys == <<"max_age", "newer_than", "priority", "retailer", "version">>

RECURSIVE EncodeFrom(_, _)
EncodeFrom(values, n) ==
    IF n > Len(SortedKeys) THEN ""
    ELSE LET k == SortedKeys[n]
             rest == EncodeFrom(values, n + 1)
         IN  IF k \notin DOMAIN values THEN rest
             ELSE k \o "=" \o QueryEscape(values[k])
                    \o (IF rest = "" THEN "" ELSE "&" \o rest)

\* url.Values.Encode
Encode(values) == EncodeFrom(values, 1)

(***************************************************************************)
(* time.Time: zero marks the zero instant (January 1, year 1, 00:00 UTC),  *)
(* the only one IsZero reports; its Unix value is never taken.             *)
(***************************************************************************)
ZeroTime == [zero |-> TRUE, unix |-> 0]

IsZero(t) == t.zero

Unix(t) == t.unix

zincBaseURL == "https://api.zinc.io/v1"

\* fmt.Sprintf("%+v", resp.Data) of an ErrorDataResponse without validator
\* errors and variants
FormatData(data) == "{Message:" \o data.Message \o " ValidatorErrors:[] AllVariants:[]}"

FailedMessage(data) == "Zinc API returned status 'failed' data=" \o FormatData(data)

\* OffersValues passing the priority on, as DetailsValues does
OffersValuesWithPriority(retailer, options) ==
    LET v1 == Set(Set(NoValues, "retailer", retailer), "version", "2")
        v2 == IF options.MaxAge # 0 THEN Set(v1, "max_age", Itoa(options.MaxAge)) ELSE v1
        v3 == IF ~IsZero(options.NewerThan)
              THEN Set(v2, "newer_than", Itoa(Unix(options.NewerThan))) ELSE v2
        v4 == IF options.Priority # 0 THEN Set(v3, "priority", Itoa(options.Priority)) ELSE v3
    IN  v4

OffersValues(retailer, options) ==
    LET v1 == Set(Set(NoValues, "retailer", retailer), "version", "2")
        v2 == IF options.MaxAge # 0 THEN Set(v1, "max_age", Itoa(options.MaxAge)) ELSE v1
        v3 == IF ~IsZero(options.NewerThan)
              THEN Set(v2, "newer_than", Itoa(Unix(options.NewerThan))) ELSE v2
    IN  v3

\* DetailsValues without the test that omits a zero max_age
DetailsValuesZeroSent(retailer, options) ==
    LET v1 == Set(NoValues, "retailer", retailer)
        v2 == Set(v1, "max_age", Itoa(options.MaxAge))
        v3 == IF ~IsZero(options.NewerThan)
              THEN Set(v2, "newer_than", Itoa(Unix(options.NewerThan))) ELSE v2
        v4 == IF options.Priority # 0 THEN Set(v3, "priority", Itoa(options.Priority)) ELSE v3
    IN  v4

DetailsValues(retailer, options) ==
    LET v1 == Set(NoValues, "retailer", retailer)
        v2 == IF options.MaxAge # 0 THEN Set(v1, "max_age", Itoa(options.MaxAge)) ELSE v1
        v3 == IF ~IsZero(options.NewerThan)
              THEN Set(v2, "newer_than", Itoa(Unix(options.NewerThan))) ELSE v2
        v4 == IF options.Priority # 0 THEN Set(v3, "priority", Itoa(options.Priority)) ELSE v3
    IN  v4

GetProductOffers(productId, retailer, options, net) ==
    LET values == OffersValues(retailer, options)
        requestPath == zincBaseURL \o "/products/" \o productId \o "/offers?" \o Encode(values)
        r == SendRequest("GET", requestPath, net, "offers")
    IN  IF r.err.type # "nil"
        THEN [requestPath |-> requestPath, resp |-> NilPtr, err |-> SimpleError(Error(r.err))]
        ELSE IF r.resp.Status = "failed"
        THEN [requestPath |-> requestPath, resp |-> r.resp,
              err |-> ZincError(FailedMessage(r.resp.Data), r.resp.Code, r.resp.Data)]
        ELSE [requestPath |-> requestPath, resp |-> r.resp, err |-> NilErr]

\* GetProductDetails leaving the code out of the error it builds
GetProductDetailsNoCode(productId, retailer, options, net) ==
    LET values == DetailsValues(retailer, options)
        requestPath == zincBaseURL \o "/products/" \o productId \o "?" \o Encode(values)
        r == SendRequest("GET", requestPath, net, "details")
    IN  IF r.err.type # "nil"
        THEN [requestPath |-> requestPath, resp |-> NilPtr, err |-> SimpleError(Error(r.err))]
        ELSE IF r.resp.Status = "failed"
        THEN [requestPath |-> requestPath, resp |-> r.resp,
              err |-> ZincError(FailedMessage(r.resp.Data), "", r.resp.Data)]
        ELSE [requestPath |-> requestPath, resp |-> r.resp, err |-> NilErr]

GetProductDetails(productId, retailer, options, net) ==
    LET values == DetailsValues(retailer, options)
        requestPath == zincBaseURL \o "/products/" \o productId \o "?" \o Encode(values)
        r == SendRequest("GET", requestPath, net, "details")
    IN  IF r.err.type # "nil"
        THEN [requestPath |-> requestPath, resp |-> NilPtr, err |-> SimpleError(Error(r.err))]
        ELSE IF r.resp.Status = "failed"
        THEN [requestPath |-> requestPath, resp |-> r.resp,
              err |-> ZincError(FailedMessage(r.resp.Data), r.resp.Code, r.resp.Data)]
        ELSE [requestPath |-> requestPath, resp |-> r.resp, err |-> NilErr]

\* SendOrder turning a response of type "error" into an error, the way the
\* product fetches treat the status "failed"
SendOrderChecked(order, net) ==
    LET r == SendRequest("POST", zincBaseURL \o "/orders", net, "order")
    IN  IF r.err.type # "nil"
        THEN [resp |-> NilPtr, err |-> SimpleError(Error(r.err))]
        ELSE IF r.resp.Type = "error"
        THEN [resp |-> r.resp, err |-> ZincError(r.resp.ErrorMessage, r.resp.Code, r.resp.Data)]
        ELSE [resp |-> r.resp, err |-> NilErr]

\* SendOrder handing the error of SendRequest on as it is
SendOrderUnwrapped(order, net) ==
    LET r == SendRequest("POST", zincBaseURL \o "/orders", net, "order")
    IN  IF r.err.type # "nil"
        THEN [resp |-> NilPtr, err |-> r.err]
        ELSE [resp |-> r.resp, err |-> NilErr]

\* json.NewEncoder(body).Encode(order) cannot fail: OrderRequest holds only
\* strings, integers, booleans, slices and pointers to such structs
SendOrder(order, net) ==
    LET r == SendRequest("POST", zincBaseURL \o "/orders", net, "order")
    IN  IF r.err.type # "nil"
        THEN [resp |-> NilPtr, err |-> SimpleError(Error(r.err))]
        ELSE [resp |-> r.resp, err |-> NilErr]

(***************************************************************************)
(* Inputs.                                                                 *)
(***************************************************************************)
\* strings handed to GetRetailer
RetailerStrings ==
    Retailers \cup {"", "ebay", "amazon_us", "amazon_", "walmar", "ali express"}

\* retailers handed to the fetches; Retailer is a string type, so a caller
\* can pass one that GetRetailer never returns
RetailerArgs == {AmazonUK, "b&w co"}

ProductIds == {"B00X"}

Times == {ZeroTime} \cup {[zero |-> FALSE, unix |-> u] : u \in 0..MaxUnix}

\* ProductOptions; Timeout only bounds client.Do, whose failure is net.fail
Options == [MaxAge : -1..MaxOpt, Priority : -1..MaxOpt, NewerThan : Times]

DefaultProductOptions == [MaxAge |-> 0, Priority |-> 0, NewerThan |-> ZeroTime]

Orders == {[Retailer |-> Amazon, MaxPrice |-> 0], [Retailer |-> Walmart, MaxPrice |-> 100]}

Codes == {"X", "failed"}

Messages == {"m", "oops"}

JsonDoc(status, code, message) ==
    "{\"status\":\"" \o status \o "\",\"code\":\"" \o code
        \o "\",\"data\":{\"message\":\"" \o message \o "\"}}"

\* what the server answers
Docs ==
    {JsonDoc(st, c, m) : st \in {"ok", "failed"}, c \in Codes, m \in Messages}
      \cup {"{\"status\":\"ok\",\"title\":\"T\"}",
            "{ \"status\" : \"failed\" }",
            "{\"_type\":\"error\",\"code\":\"X\",\"message\":\"m\",\"status\":\"failed\"}",
            "{\"status\":\"failed\"",
            "",
            "bad gateway",
            "{\"code\":\"HTTP/1.1 200 OK\"}",
            "{\"code\":\"HTTP/1.1 200\"}",
            "{\"status\":\"ok\",\"data\":\"gone\"}"}

\* n further HTTP responses, concatenated onto a body by the upstream
RECURSIVE Appended(_)
Appended(n) ==
    IF n = 0 THEN "" ELSE Marker \o " {\"garbage\":\"g\"}" \o Appended(n - 1)

Bodies == {d \o Appended(n) : d \in Docs, n \in 0..MaxAppended}

Nets ==
    {[fail |-> "none", body |-> b] : b \in Bodies}
      \cup {[fail |-> f, body |-> ""] : f \in {"NewRequest", "Do", "ReadAll"}}

(***************************************************************************)
(* State.                                                                  *)
(***************************************************************************)
VARIABLES
    last,         \* the last call of GetRetailer, SendOrder or a single fetch
    args,         \* the arguments of the running GetProductInfo
    pcMain,       \* where GetProductInfo stands
    pcOffers,     \* where the goroutine that fetches the offers stands
    pcDetails,    \* where the goroutine that fetches the details stands
    offersChan,   \* the channels, as the sequences of values they buffer
    detailsChan,
    errorsChan,
    offersTask,   \* offers, err of the offers goroutine
    detailsTask,  \* details, err of the details goroutine
    offers,       \* offers, details and i of GetProductInfo
    details,
    i,
    ret,          \* what GetProductInfo returned
    sent          \* who sent on errorsChan, in the order of the sends

vars == <<last, args, pcMain, pcOffers, pcDetails, offersChan, detailsChan, errorsChan,
          offersTask, detailsTask, offers, details, i, ret, sent>>

infoVars == <<args, pcMain, pcOffers, pcDetails, offersChan, detailsChan, errorsChan,
              offersTask, detailsTask, offers, details, i, ret, sent>>

OffersChanCap == 1
DetailsChanCap == 1
ErrorsChanCap == 2

NoCall == [op |-> "none"]
NoTask == [resp |-> NilPtr, err |-> NilErr]
NoRet == [offers |-> NilPtr, details |-> NilPtr, err |-> NilErr]

Init ==
    /\ last = NoCall
    /\ args = [productId |-> "", retailer |-> "", options |-> DefaultProductOptions]
    /\ pcMain = "idle"
    /\ pcOffers = "none"
    /\ pcDetails = "none"
    /\ offersChan = <<>>
    /\ detailsChan = <<>>
    /\ errorsChan = <<>>
    /\ offersTask = NoTask
    /\ detailsTask = NoTask
    /\ offers = NilPtr
    /\ details = NilPtr
    /\ i = 0
    /\ ret = NoRet
    /\ sent = <<>>

(***************************************************************************)
(* The calls that run on the caller's goroutine alone.  The client keeps   *)
(* no state between calls, so a behaviour is one call.                     *)
(***************************************************************************)
CallGetRetailer ==
    /\ pcMain = "idle"
    /\ last = NoCall
    /\ \E retailer \in RetailerStrings :
         last' = [op |-> "GetRetailer", retailer |-> retailer, ret |-> GetRetailer(retailer)]
    /\ UNCHANGED infoVars

CallSendOrder ==
    /\ pcMain = "idle"
    /\ last = NoCall
    /\ \E order \in Orders, net \in Nets :
         last' = [op |-> "SendOrder", order |-> order, net |-> net,
                  ret |-> SendOrder(order, net)]
    /\ UNCHANGED infoVars

CallGetProductOffers ==
    /\ pcMain = "idle"
    /\ last = NoCall
    /\ \E productId \in ProductIds, retailer \in RetailerArgs, options \in Options, net \in Nets :
         last' = [op |-> "GetProductOffers", productId |-> productId, retailer |-> retailer,
                  options |-> options, net |-> net,
                  ret |-> GetProductOffers(productId, retailer, options, net)]
    /\ UNCHANGED infoVars

CallGetProductDetails ==
    /\ pcMain = "idle"
    /\ last = NoCall
    /\ \E productId \in ProductIds, retailer \in RetailerArgs, options \in Options, net \in Nets :
         last' = [op |-> "GetProductDetails", productId |-> productId, retailer |-> retailer,
                  options |-> options, net |-> net,
                  ret |-> GetProductDetails(productId, retailer, options, net)]
    /\ UNCHANGED infoVars

(***************************************************************************)
(* GetProductInfo: the caller makes the three channels and starts the two  *)
(* goroutines one after the other; each goroutine fetches, sends its error *)
(* on errorsChan, sends its result on its own channel and ends; the caller *)
(* receives the offers, then the details, then up to two errors.           *)
(***************************************************************************)
InfoOptions ==
    {DefaultProductOptions,
     [MaxAge |-> MaxOpt, Priority |-> MaxOpt, NewerThan |-> [zero |-> FALSE, unix |-> MaxUnix]]}

\* make(chan ..) three times and the first go statement
GetProductInfo ==
    /\ pcMain = "idle"
    /\ last = NoCall
    /\ \E productId \in ProductIds, retailer \in {Amazon}, options \in InfoOptions :
         args' = [productId |-> productId, retailer |-> retailer, options |-> options]
    /\ last' = NoCall
    /\ offersChan' = <<>>
    /\ detailsChan' = <<>>
    /\ errorsChan' = <<>>
    /\ pcOffers' = "fetch"
    /\ pcMain' = "goDetails"
    /\ UNCHANGED <<pcDetails, offersTask, detailsTask, offers, details, i, ret, sent>>

\* the second go statement
GoDetails ==
    /\ pcMain = "goDetails"
    /\ pcDetails' = "fetch"
    /\ pcMain' = "recvOffers"
    /\ UNCHANGED <<last, args, pcOffers, offersChan, detailsChan, errorsChan,
                   offersTask, detailsTask, offers, details, i, ret, sent>>

\* offers, err := z.GetProductOffers(productId, retailer, options)
OffersFetch ==
    /\ pcOffers = "fetch"
    /\ \E net \in Nets :
         LET r == GetProductOffers(args.productId, args.retailer, args.options, net)
         IN  offersTask' = [resp |-> r.resp, err |-> r.err]
    /\ pcOffers' = "sendErr"
    /\ UNCHANGED <<last, args, pcMain, pcDetails, offersChan, detailsChan, errorsChan,
                   detailsTask, offers, details, i, ret, sent>>

\* OffersSendErr as it would be if errorsChan were made with room for one
\* error only
OffersSendErrCapOne ==
    /\ pcOffers = "sendErr"
    /\ Len(errorsChan) < 1
    /\ errorsChan' = Append(errorsChan, offersTask.err)
    /\ sent' = Append(sent, "offers")
    /\ pcOffers' = "sendResult"
    /\ UNCHANGED <<last, args, pcMain, pcDetails, offersChan, detailsChan,
                   offersTask, detailsTask, offers, details, i, ret>>

\* errorsChan <- err
OffersSendErr ==
    /\ pcOffers = "sendErr"
    /\ Len(errorsChan) < ErrorsChanCap
    /\ errorsChan' = Append(errorsChan, offersTask.err)
    /\ sent' = Append(sent, "offers")
    /\ pcOffers' = "sendResult"
    /\ UNCHANGED <<last, args, pcMain, pcDetails, offersChan, detailsChan,
                   offersTask, detailsTask, offers, details, i, ret>>

\* offersChan <- offers
OffersSendResult ==
    /\ pcOffers = "sendResult"
    /\ Len(offersChan) < OffersChanCap
    /\ offersChan' = Append(offersChan, offersTask.resp)
    /\ pcOffers' = "return"
    /\ UNCHANGED <<last, args, pcMain, pcDetails, detailsChan, errorsChan,
                   offersTask, detailsTask, offers, details, i, ret, sent>>

\* the goroutine's function returns
OffersExit ==
    /\ pcOffers = "return"
    /\ pcOffers' = "exited"
    /\ UNCHANGED <<last, args, pcMain, pcDetails, offersChan, detailsChan, errorsChan,
                   offersTask, detailsTask, offers, details, i, ret, sent>>

\* details, err := z.GetProductDetails(productId, retailer, options)
DetailsFetch ==
    /\ pcDetails = "fetch"
    /\ \E net \in Nets :
         LET r == GetProductDetails(args.productId, args.retailer, args.options, net)
         IN  detailsTask' = [resp |-> r.resp, err |-> r.err]
    /\ pcDetails' = "sendErr"
    /\ UNCHANGED <<last, args, pcMain, pcOffers, offersChan, detailsChan, errorsChan,
                   offersTask, offers, details, i, ret, sent>>

\* errorsChan <- err
DetailsSendErr ==
    /\ pcDetails = "sendErr"
    /\ Len(errorsChan) < ErrorsChanCap
    /\ errorsChan' = Append(errorsChan, detailsTask.err)
    /\ sent' = Append(sent, "details")
    /\ pcDetails' = "sendResult"
    /\ UNCHANGED <<last, args, pcMain, pcOffers, offersChan, detailsChan,
                   offersTask, detailsTask, offers, details, i, ret>>

\* detailsChan <- details
DetailsSendResult ==
    /\ pcDetails = "sendResult"
    /\ Len(detailsChan) < DetailsChanCap
    /\ detailsChan' = Append(detailsChan, detailsTask.resp)
    /\ pcDetails' = "return"
    /\ UNCHANGED <<last, args, pcMain, pcOffers, offersChan, errorsChan,
                   offersTask, detailsTask, offers, details, i, ret, sent>>

\* the goroutine's function returns
DetailsExit ==
    /\ pcDetails = "return"
    /\ pcDetails' = "exited"
    /\ UNCHANGED <<last, args, pcMain, pcOffers, offersChan, detailsChan, errorsChan,
                   offersTask, detailsTask, offers, details, i, ret, sent>>

\* offers := <-offersChan
RecvOffers ==
    /\ pcMain = "recvOffers"
    /\ Len(offersChan) > 0
    /\ offers' = Head(offersChan)
    /\ offersChan' = Tail(offersChan)
    /\ pcMain' = "recvDetails"
    /\ UNCHANGED <<last, args, pcOffers, pcDetails, detailsChan, errorsChan,
                   offersTask, detailsTask, details, i, ret, sent>>

\* RecvDetails as it would be if the caller did not wait for the details:
\* it takes what detailsChan holds, or nil
RecvDetailsNoWait ==
    /\ pcMain = "recvDetails"
    /\ details' = IF Len(detailsChan) > 0 THEN Head(detailsChan) ELSE NilPtr
    /\ detailsChan' = IF Len(detailsChan) > 0 THEN Tail(detailsChan) ELSE detailsChan
    /\ i' = 0
    /\ pcMain' = "recvErr"
    /\ UNCHANGED <<last, args, pcOffers, pcDetails, offersChan, errorsChan,
                   offersTask, detailsTask, offers, ret, sent>>

\* details := <-detailsChan, then i := 0
RecvDetails ==
    /\ pcMain = "recvDetails"
    /\ Len(detailsChan) > 0
    /\ details' = Head(detailsChan)
    /\ detailsChan' = Tail(detailsChan)
    /\ i' = 0
    /\ pcMain' = "recvErr"
    /\ UNCHANGED <<last, args, pcOffers, pcDetails, offersChan, errorsChan,
                   offersTask, detailsTask, offers, ret, sent>>

\* RecvErr as it would be if it returned the results along with the error
RecvErrPartial ==
    /\ pcMain = "recvErr"
    /\ i < 2
    /\ Len(errorsChan) > 0
    /\ LET err == Head(errorsChan)
       IN  /\ errorsChan' = Tail(errorsChan)
           /\ i' = IF err.type # "nil" THEN i ELSE i + 1
           /\ pcMain' = IF err.type = "nil" /\ i + 1 < 2 THEN "recvErr" ELSE "returned"
           /\ ret' = IF err.type = "nil" /\ i + 1 < 2 THEN ret
                     ELSE [offers |-> offers, details |-> details, err |-> err]
    /\ UNCHANGED <<last, args, pcOffers, pcDetails, offersChan, detailsChan,
                   offersTask, detailsTask, offers, details, sent>>

\* RecvErr as it would be if the loop kept the last error it saw instead of
\* returning on the first
RecvErrLast ==
    /\ pcMain = "recvErr"
    /\ i < 2
    /\ Len(errorsChan) > 0
    /\ LET err == Head(errorsChan)
           seen == IF err.type # "nil" THEN err ELSE ret.err
       IN  /\ errorsChan' = Tail(errorsChan)
           /\ i' = i + 1
           /\ pcMain' = IF i + 1 < 2 THEN "recvErr" ELSE "returned"
           /\ ret' = IF i + 1 < 2 \/ seen.type # "nil"
                     THEN [offers |-> NilPtr, details |-> NilPtr, err |-> seen]
                     ELSE [offers |-> offers, details |-> details, err |-> NilErr]
    /\ UNCHANGED <<last, args, pcOffers, pcDetails, offersChan, detailsChan,
                   offersTask, detailsTask, offers, details, sent>>

\* one round of the loop: err := <-errorsChan, the return on a non-nil err,
\* i++, and the return after the second round
RecvErr ==
    /\ pcMain = "recvErr"
    /\ i < 2
    /\ Len(errorsChan) > 0
    /\ LET err == Head(errorsChan)
       IN  /\ errorsChan' = Tail(errorsChan)
           /\ IF err.type # "nil"
              THEN /\ ret' = [offers |-> NilPtr, details |-> NilPtr, err |-> err]
                   /\ pcMain' = "returned"
                   /\ i' = i
              ELSE /\ i' = i + 1
                   /\ IF i + 1 < 2
                      THEN /\ pcMain' = "recvErr"
                           /\ ret' = ret
                      ELSE /\ pcMain' = "returned"
                           /\ ret' = [offers |-> offers, details |-> details, err |-> NilErr]
    /\ UNCHANGED <<last, args, pcOffers, pcDetails, offersChan, detailsChan,
                   offersTask, detailsTask, offers, details, sent>>

Next ==
    \/ CallGetRetailer
    \/ CallSendOrder
    \/ CallGetProductOffers
    \/ CallGetProductDetails
    \/ GetProductInfo
    \/ GoDetails
    \/ OffersFetch
    \/ OffersSendErr
    \/ OffersSendResult
    \/ OffersExit
    \/ DetailsFetch
    \/ DetailsSendErr
    \/ DetailsSendResult
    \/ DetailsExit
    \/ RecvOffers
    \/ RecvDetails
    \/ RecvErr

Spec == Init /\ [][Next]_vars

(***************************************************************************)
(* Properties of GetProductInfo.                                           *)
(***************************************************************************)
\* a goroutine has fetched and performed both of its sends
TaskDone(pc) == pc \in {"return", "exited"}

\* C1: when GetProductInfo has returned, each of the two goroutines has
\* finished its fetch and performed both of its channel sends, whatever the
\* interleaving and whatever the two fetches yielded.
C1_JoinsBothTasks ==
    pcMain = "returned" =>
        /\ TaskDone(pcOffers)
        /\ TaskDone(pcDetails)
        /\ Len(sent) = 2
        /\ {sent[1], sent[2]} = {"offers", "details"}

\* GetProductInfo returned early, on the first error, with the second error
\* still in errorsChan
C1_Witness ==
    /\ pcMain = "returned"
    /\ i = 0
    /\ ret.err.type # "nil"
    /\ Len(errorsChan) = 1
    /\ TaskDone(pcOffers)
    /\ TaskDone(pcDetails)

\* C2: when GetProductInfo has returned and either fetch returned a non-nil
\* error, it returned a non-nil error and two nil pointers; and it never
\* returns one nil and one non-nil pointer.
C2_EitherFailureFails ==
    pcMain = "returned" =>
        /\ (offersTask.err.type # "nil" \/ detailsTask.err.type # "nil") =>
              /\ ret.err.type # "nil"
              /\ ret.offers = NilPtr
              /\ ret.details = NilPtr
        /\ ret.offers.isNil = ret.details.isNil
        /\ ret.err.type # "nil" => ret.offers.isNil

\* the offers fetch failed with status "failed", so with a non-nil partial
\* result, the details fetch succeeded, and the combined call returned the
\* error and no result
C2_Witness ==
    /\ pcMain = "returned"
    /\ offersTask.err.type = "ZincError"
    /\ ~offersTask.resp.isNil
    /\ detailsTask.err.type = "nil"
    /\ ~detailsTask.resp.isNil
    /\ ret.err = offersTask.err
    /\ ret.offers = NilPtr
    /\ ret.details = NilPtr

\* the error a task sent on errorsChan
ErrOf(task) == IF task = "offers" THEN offersTask.err ELSE detailsTask.err

\* the first non-nil error of a sequence of errors, nil if there is none
RECURSIVE FirstNonNil(_)
FirstNonNil(errs) ==
    IF errs = <<>> THEN NilErr
    ELSE IF Head(errs).type # "nil" THEN Head(errs)
    ELSE FirstNonNil(Tail(errs))

\* C3: the error GetProductInfo returns is the first non-nil error in the
\* order in which the two tasks sent their errors on errorsChan.
C3_FirstObservedError ==
    pcMain = "returned" =>
        ret.err = FirstNonNil(<<ErrOf(sent[1]), ErrOf(sent[2])>>)

\* both fetches failed with different errors, the details task sent first,
\* and its error is the one returned
C3_Witness ==
    /\ pcMain = "returned"
    /\ offersTask.err.type # "nil"
    /\ detailsTask.err.type # "nil"
    /\ offersTask.err # detailsTask.err
    /\ sent = <<"details", "offers">>
    /\ ret.err = detailsTask.err

(***************************************************************************)
(* Properties of the single calls.                                         *)
(***************************************************************************)
IsFetch == last.op \in {"GetProductOffers", "GetProductDetails"}

\* the exchange succeeded and the server's body was the given one
Answered(body) == last.net = [fail |-> "none", body |-> body]

\* the body of a failed request with the given code and message, with or
\* without responses appended to it
FailedBodies(code, message) ==
    {JsonDoc("failed", code, message) \o Appended(n) : n \in 0..MaxAppended}

\* C4 (as claimed): a fetch answered with status "failed", code X and
\* data.message m returns a non-nil result and a ZincError whose message
\* contains both X and m.
C4_MessageEmbedsCodeAndData ==
    \A c \in Codes, m \in Messages :
        (IsFetch /\ last.net.fail = "none" /\ last.net.body \in FailedBodies(c, m)) =>
            /\ ~last.ret.resp.isNil
            /\ last.ret.err.type = "ZincError"
            /\ Contains(Error(last.ret.err), c)
            /\ Contains(Error(last.ret.err), m)

\* C4 (amended): a fetch answered with status "failed", code X and
\* data.message m returns the decoded result (non-nil) and a ZincError that
\* carries X in its Code field and the error data in its Data field; its
\* message is the fixed text followed by the rendered error data, so it
\* contains m, and it is the same for every code.
C4_ErrorCarriesCodeMessageEmbedsData ==
    \A c \in Codes, m \in Messages :
        (IsFetch /\ last.net.fail = "none" /\ last.net.body \in FailedBodies(c, m)) =>
            /\ ~last.ret.resp.isNil
            /\ last.ret.resp.Status = "failed"
            /\ last.ret.resp.Code = c
            /\ last.ret.resp.Data.Message = m
            /\ last.ret.err.type = "ZincError"
            /\ last.ret.err.Code = c
            /\ last.ret.err.Data = [Message |-> m]
            /\ Contains(Error(last.ret.err), m)
            /\ Error(last.ret.err) =
                 "Zinc API returned status 'failed' data={Message:" \o m
                    \o " ValidatorErrors:[] AllVariants:[]}"

\* GetProductDetails was answered with status "failed", code "X" and message
\* "oops", and its error carries the code but its message does not
C4_Witness ==
    /\ last.op = "GetProductDetails"
    /\ Answered(JsonDoc("failed", "X", "oops"))
    /\ ~last.ret.resp.isNil
    /\ last.ret.err.Code = "X"
    /\ Contains(Error(last.ret.err), "oops")
    /\ ~Contains(Error(last.ret.err), "X")

\* C5: when the exchange of SendOrder succeeds and the sanitized body
\* decodes, SendOrder returns the decoded response and a nil error; so it
\* does for a body of status "failed", for which both product fetches return
\* a ZincError.
C5_SendOrderNoStatusCheck ==
    (last.op = "SendOrder" /\ last.net.fail = "none") =>
        LET u == Unmarshal(cleanRespBody(last.net.body), "order")
        IN  /\ u.err.type = "nil" =>
                  /\ last.ret.err = NilErr
                  /\ ~last.ret.resp.isNil
                  /\ last.ret.resp = u.resp
            /\ \A c \in Codes, m \in Messages :
                  last.net.body \in FailedBodies(c, m) =>
                      /\ last.ret.err = NilErr
                      /\ last.ret.resp.Code = c
                      /\ last.ret.resp.Data.Message = m
                      /\ GetProductDetails("B00X", Amazon, DefaultProductOptions,
                                           last.net).err.type = "ZincError"
                      /\ GetProductOffers("B00X", Amazon, DefaultProductOptions,
                                          last.net).err.type = "ZincError"

\* SendOrder was answered with an order response of type "error" and status
\* "failed" and returned it with a nil error
C5_Witness ==
    /\ last.op = "SendOrder"
    /\ Answered("{\"_type\":\"error\",\"code\":\"X\",\"message\":\"m\",\"status\":\"failed\"}")
    /\ last.ret.err = NilErr
    /\ last.ret.resp.Type = "error"
    /\ last.ret.resp.Code = "X"

\* the bodies that are no JSON text because they end too early
TruncatedBodies ==
    {d \o Appended(n) : d \in {"", "{\"status\":\"failed\""}, n \in 0..MaxAppended}

\* C6: an error of SendOrder is a ZincError that carries the message of the
\* failure beneath it, and comes with a nil response: for a failure to build
\* the request, to send it or to read the response, and for a body that does
\* not decode.  (Encoding an OrderRequest cannot fail.)
C6_SendOrderErrorsWrapped ==
    last.op = "SendOrder" =>
        /\ last.ret.err.type \in {"nil", "ZincError"}
        /\ last.ret.resp.isNil <=> last.ret.err.type # "nil"
        /\ last.net.fail = "NewRequest" => last.ret.err = SimpleError(ErrNewRequest)
        /\ last.net.fail = "Do" => last.ret.err = SimpleError(ErrDo)
        /\ last.net.fail = "ReadAll" => last.ret.err = SimpleError(ErrReadAll)
        /\ (last.net.fail = "none" /\ last.net.body \in TruncatedBodies) =>
              last.ret.err = SimpleError(ErrUnexpectedEnd)
        /\ (last.net.fail = "none" /\ last.net.body = "bad gateway") =>
              last.ret.err = SimpleError(ErrInvalidChar)

\* SendOrder was answered with a JSON text that breaks off and returned a
\* ZincError with the decoder's message and a nil response
C6_Witness ==
    /\ last.op = "SendOrder"
    /\ Answered("{\"status\":\"failed\"")
    /\ last.ret.err.type = "ZincError"
    /\ Error(last.ret.err) = ErrUnexpectedEnd
    /\ last.ret.resp = NilPtr

\* C7: GetRetailer returns, for each of the six retailer strings, a nil error
\* and the Retailer whose string is the input; for any other string it
\* returns a non-nil error.
C7_GetRetailerRoundTrip ==
    last.op = "GetRetailer" =>
        IF last.retailer \in {"amazon", "amazon_uk", "amazon_ca", "amazon_mx",
                              "walmart", "aliexpress"}
        THEN /\ last.ret.err = NilErr
             /\ last.ret.retailer = last.retailer
        ELSE /\ last.ret.err.type # "nil"
             /\ Error(last.ret.err) = "Invalid retailer string"

\* GetRetailer was given a string outside the enumeration and returned an
\* error
C7_Witness ==
    /\ last.op = "GetRetailer"
    /\ last.retailer = "amazon_us"
    /\ last.ret.err.type # "nil"

\* the query string of a request path
QueryOf(requestPath) ==
    Slice(requestPath, Index(requestPath, "?") + 1, Len(requestPath))

\* the query string has a parameter of the given name
HasParam(query, name) == Contains("&" \o query, "&" \o name \o "=")

\* the query string has the parameter with the given (escaped) value
ParamIs(query, name, value) ==
    Contains("&" \o query \o "&", "&" \o name \o "=" \o value \o "&")

\* the decimal numerals of the option values tried
Numeral(n) ==
    CASE n = -1 -> "-1" [] n = 0 -> "0" [] n = 1 -> "1" [] n = 2 -> "2" [] n = 3 -> "3"

\* C8: the query of GetProductDetails always has retailer; it has max_age
\* exactly when MaxAge is not 0, priority exactly when Priority is not 0, and
\* newer_than, as the Unix time, exactly when NewerThan is not the zero time.
C8_DetailsOmitsZero ==
    last.op = "GetProductDetails" =>
        LET q == QueryOf(last.ret.requestPath)
            o == last.options
        IN  /\ HasParam(q, "retailer")
            /\ ParamIs(q, "retailer", QueryEscape(last.retailer))
            /\ HasParam(q, "max_age") <=> o.MaxAge # 0
            /\ HasParam(q, "priority") <=> o.Priority # 0
            /\ HasParam(q, "newer_than") <=> ~o.NewerThan.zero
            /\ o.MaxAge # 0 => ParamIs(q, "max_age", Numeral(o.MaxAge))
            /\ o.Priority # 0 => ParamIs(q, "priority", Numeral(o.Priority))
            /\ ~o.NewerThan.zero => ParamIs(q, "newer_than", Numeral(o.NewerThan.unix))
            /\ ~HasParam(q, "version")

\* GetProductDetails was called with max_age 0 and priority 0 and its query
\* has neither
C8_Witness ==
    /\ last.op = "GetProductDetails"
    /\ last.retailer = AmazonUK
    /\ last.options = [MaxAge |-> 0, Priority |-> 0, NewerThan |-> [zero |-> FALSE, unix |-> 0]]
    /\ QueryOf(last.ret.requestPath) = "newer_than=0&retailer=amazon_uk"

\* values without the key
Without(values, key) == [k \in DOMAIN values \ {key} |-> values[k]]

\* C9 (as claimed): the query of GetProductOffers is the query of
\* GetProductDetails for the same arguments with version=2 added.
C9_OffersQueryIsDetailsPlusVersion ==
    last.op = "GetProductOffers" =>
        QueryOf(last.ret.requestPath)
            = Encode(Set(DetailsValues(last.retailer, last.options), "version", "2"))

\* C9 (amended): the query of GetProductOffers is the query of
\* GetProductDetails for the same arguments without priority and with
\* version=2 added: it never has priority, whatever options.Priority is.
C9_OffersQueryDropsPriority ==
    last.op = "GetProductOffers" =>
        LET q == QueryOf(last.ret.requestPath)
            o == last.options
        IN  /\ q = Encode(Set(Without(DetailsValues(last.retailer, o), "priority"),
                              "version", "2"))
            /\ ParamIs(q, "version", "2")
            /\ ParamIs(q, "retailer", QueryEscape(last.retailer))
            /\ HasParam(q, "max_age") <=> o.MaxAge # 0
            /\ HasParam(q, "newer_than") <=> ~o.NewerThan.zero
            /\ ~HasParam(q, "priority")

\* GetProductOffers was called with a priority and a max_age, and its query
\* has the max_age and the version but no priority
C9_Witness ==
    /\ last.op = "GetProductOffers"
    /\ last.retailer = AmazonUK
    /\ last.options = [MaxAge |-> 1, Priority |-> 1, NewerThan |-> ZeroTime]
    /\ QueryOf(last.ret.requestPath) = "max_age=1&retailer=amazon_uk&version=2"

IsPrefix(p, s) == Len(p) <= Len(s) /\ Slice(s, 0, Len(p)) = p

\* the kind of response struct a call decodes into
KindOf(op) ==
    CASE op = "SendOrder" -> "order"
      [] op = "GetProductOffers" -> "offers"
      [] op = "GetProductDetails" -> "details"

\* C10: cleanRespBody returns a body without the marker unchanged and
\* otherwise the part of the body before the first marker; the result has no
\* marker, is a prefix of the body, and is left unchanged by cleanRespBody.
\* What a call decodes is the sanitized body: a body that is valid JSON only
\* up to the marker decodes, and a body that is valid JSON only as a whole
\* does not.
C10_SanitizerCutsAtFirstMarker ==
    (last.op \in {"SendOrder", "GetProductOffers", "GetProductDetails"}
        /\ last.net.fail = "none") =>
        LET b == last.net.body
            c == cleanRespBody(b)
            u == Unmarshal(c, KindOf(last.op))
        IN  /\ ~Contains(b, Marker) => c = b
            /\ Contains(b, Marker) =>
                  /\ IsPrefix(c \o Marker, b)
                  /\ ~Contains(Slice(b, 0, Len(c) + Len(Marker) - 1), Marker)
            /\ ~Contains(c, Marker)
            /\ IsPrefix(c, b)
            /\ cleanRespBody(c) = c
            /\ u.err.type # "nil" =>
                  /\ last.ret.err = SimpleError(Error(u.err))
                  /\ last.ret.resp = NilPtr
            /\ u.err.type = "nil" => last.ret.resp = u.resp
            /\ \A n \in 1..MaxAppended :
                  b = "{\"status\":\"ok\",\"title\":\"T\"}" \o Appended(n) =>
                      /\ last.ret.err = NilErr
                      /\ last.op # "SendOrder" => last.ret.resp.Title = "T"
            /\ b = "{\"code\":\"HTTP/1.1 200 OK\"}" =>
                  last.ret.err = SimpleError(ErrUnexpectedEnd)

\* GetProductDetails was answered with a body followed by a second HTTP
\* response and decoded the body
C10_Witness ==
    /\ last.op = "GetProductDetails"
    /\ Answered("{\"status\":\"ok\",\"title\":\"T\"}" \o Appended(1))
    /\ last.ret.err = NilErr
    /\ last.ret.resp.Title = "T"

(***************************************************************************)
(* Termination of GetProductInfo.  The Go scheduler runs every goroutine   *)
(* that can take a step, and the two fetches are taken to terminate (each  *)
(* is bounded by the timeout of its request): every step of the caller and *)
(* of the two goroutines is weakly fair.  Whether GetProductInfo is called *)
(* at all is left open.                                                    *)
(***************************************************************************)
FairSpec ==
    /\ Spec
    /\ WF_vars(GoDetails)
    /\ WF_vars(OffersFetch)
    /\ WF_vars(OffersSendErr)
    /\ WF_vars(OffersSendResult)
    /\ WF_vars(OffersExit)
    /\ WF_vars(DetailsFetch)
    /\ WF_vars(DetailsSendErr)
    /\ WF_vars(DetailsSendResult)
    /\ WF_vars(DetailsExit)
    /\ WF_vars(RecvOffers)
    /\ WF_vars(RecvDetails)
    /\ WF_vars(RecvErr)

\* a goroutine that stands at a send finds room in the channel
SendsNeverBlock ==
    /\ pcOffers = "sendErr" => Len(errorsChan) < ErrorsChanCap
    /\ pcDetails = "sendErr" => Len(errorsChan) < ErrorsChanCap
    /\ pcOffers = "sendResult" => Len(offersChan) < OffersChanCap
    /\ pcDetails = "sendResult" => Len(detailsChan) < DetailsChanCap

\* GetProductInfo has been called
InfoStarted == pcMain # "idle"

\* GetProductInfo has returned and both goroutines have ended
InfoFinished == pcMain = "returned" /\ pcOffers = "exited" /\ pcDetails = "exited"

\* C11: no send of a goroutine ever finds its channel full, and once
\* GetProductInfo is called it returns and both goroutines end, in every
\* interleaving and for every outcome of the two fetches, and they stay so.
C11_InfoTerminates ==
    /\ []SendsNeverBlock
    /\ InfoStarted ~> InfoFinished
    /\ [][InfoFinished => InfoFinished']_vars

\* GetProductInfo returned on the first error it received, both goroutines
\* have ended, and the second error is left in errorsChan
C11_Witness ==
    /\ InfoFinished
    /\ i = 0
    /\ ret.err.type # "nil"
    /\ Len(errorsChan) = 1
    /\ offersChan = <<>>
    /\ detailsChan = <<>>

====
